---- MODULE Spec2Model ----
(***************************************************************************)
(* Link-Hunter backend: the POST /api/get-url handler of                   *)
(* src/routes/api.js.  A request carries an imageUrl; the handler spawns   *)
(* a child process, accumulates its stdout and stderr as text, and on the  *)
(* process's 'close' event turns exit code and buffers into one response.  *)
(*                                                                         *)
(* Bytes are numbers 0..255, a Buffer is a sequence of bytes, a JavaScript *)
(* string is a sequence of UTF-16 code units.                              *)
(***************************************************************************)
EXTENDS Integers, Sequences, FiniteSets, TLC

\* ------------------------------------------------------------------ bounds

\* Requests the model follows (request ids 1..MaxRequests).
MaxRequests == 2
\* Numeric exit codes a child may end with: 0..MaxExitCode.
MaxExitCode == 2

\* ------------------------------------------------------- Buffer.toString()

\* U+FFFD, what the decoder puts in place of bytes that are not UTF-8.
ReplacementChar == 65533

IsCont(b) == b >= 128 /\ b <= 191

\* Lowest and highest second byte a lead byte admits (E0, ED, F0 and F4 narrow
\* the range, which rules out overlong forms and surrogates).
SecondLo(b) == IF b = 224 THEN 160 ELSE IF b = 240 THEN 144 ELSE 128
SecondHi(b) == IF b = 237 THEN 159 ELSE IF b = 244 THEN 143 ELSE 191

\* Number of continuation bytes a lead byte asks for; 0 for ASCII, -1 for a
\* byte that cannot start a character.
Needed(b) ==
  IF b < 128 THEN 0
  ELSE IF b >= 194 /\ b <= 223 THEN 1
  ELSE IF b >= 224 /\ b <= 239 THEN 2
  ELSE IF b >= 240 /\ b <= 244 THEN 3
  ELSE -1

LeadBits(b) ==
  IF b < 128 THEN b
  ELSE IF b <= 223 THEN b - 192
  ELSE IF b <= 239 THEN b - 224
  ELSE b - 240

\* How many of the continuation bytes wanted after position i are there and
\* well-formed (the first one within the lead byte's range).
RECURSIVE GoodConts(_, _, _, _)
GoodConts(buf, i, k, need) ==
  IF k > need \/ i + k > Len(buf) THEN k - 1
  ELSE LET c == buf[i + k]
           ok == IF k = 1 THEN c >= SecondLo(buf[i]) /\ c <= SecondHi(buf[i])
                 ELSE IsCont(c)
       IN IF ok THEN GoodConts(buf, i, k + 1, need) ELSE k - 1

RECURSIVE ContBits(_, _, _, _)
ContBits(buf, i, k, acc) ==
  IF k = 0 THEN acc
  ELSE ContBits(buf, i + 1, k - 1, acc * 64 + (buf[i] - 128))

\* The UTF-16 code units of a code point: itself, or a surrogate pair.
CodeUnits(cp) ==
  IF cp < 65536 THEN <<cp>>
  ELSE <<55296 + ((cp - 65536) \div 1024), 56320 + ((cp - 65536) % 1024)>>

\* data.toString(): UTF-8 decoding of ONE chunk.  A malformed or truncated
\* sequence becomes one U+FFFD per maximal ill-formed part; nothing is carried
\* over to the next chunk.
RECURSIVE DecodeFrom(_, _)
DecodeFrom(buf, i) ==
  IF i > Len(buf) THEN <<>>
  ELSE LET b == buf[i]
           need == Needed(b)
       IN IF need = 0 THEN <<b>> \o DecodeFrom(buf, i + 1)
          ELSE IF need = -1 THEN <<ReplacementChar>> \o DecodeFrom(buf, i + 1)
          ELSE LET got == GoodConts(buf, i, 1, need)
               IN IF got = need
                  THEN CodeUnits(ContBits(buf, i + 1, need, LeadBits(b)))
                         \o DecodeFrom(buf, i + 1 + need)
                  ELSE <<ReplacementChar>> \o DecodeFrom(buf, i + 1 + got)

toString(buf) == DecodeFrom(buf, 1)

IsHighSurrogate(u) == u >= 55296 /\ u <= 56319
IsLowSurrogate(u) == u >= 56320 /\ u <= 57343

\* The UTF-8 bytes of a string (what a process writes to print it).
RECURSIVE Utf8Encode(_)
Utf8Encode(s) ==
  IF s = <<>> THEN <<>>
  ELSE LET pair == Len(s) >= 2 /\ IsHighSurrogate(s[1]) /\ IsLowSurrogate(s[2])
           c == IF pair THEN 65536 + (s[1] - 55296) * 1024 + (s[2] - 56320)
                ELSE IF IsHighSurrogate(s[1]) \/ IsLowSurrogate(s[1]) THEN ReplacementChar
                ELSE s[1]
           rest == IF pair THEN Tail(Tail(s)) ELSE Tail(s)
           bytes == IF c < 128 THEN <<c>>
                    ELSE IF c < 2048 THEN <<192 + (c \div 64), 128 + (c % 64)>>
                    ELSE IF c < 65536
                      THEN <<224 + (c \div 4096), 128 + ((c \div 64) % 64), 128 + (c % 64)>>
                    ELSE <<240 + (c \div 262144), 128 + ((c \div 4096) % 64),
                           128 + ((c \div 64) % 64), 128 + (c % 64)>>
       IN bytes \o Utf8Encode(rest)

\* ------------------------------------------------- JSON.parse / res.json

(***************************************************************************)
(* A JSON value is a record with a tag t and one field per kind, the       *)
(* unused ones at a fixed default.  Covered: arrays, strings (with their   *)
(* escapes), unsigned integers and the three literals; the texts of this   *)
(* model hold no object, sign, fraction or exponent.                       *)
(***************************************************************************)
JNull == [t |-> "null", n |-> 0, s |-> <<>>, items |-> <<>>]
JBool(b) == [t |-> IF b THEN "true" ELSE "false", n |-> 0, s |-> <<>>, items |-> <<>>]
JNum(k) == [t |-> "num", n |-> k, s |-> <<>>, items |-> <<>>]
JStr(str) == [t |-> "str", n |-> 0, s |-> str, items |-> <<>>]
JArr(vs) == [t |-> "arr", n |-> 0, s |-> <<>>, items |-> vs]

\* A parsing step's result: ok, the value, and the position after it.  A
\* failure stands for the SyntaxError JSON.parse throws.
Parsed(v, p) == [ok |-> TRUE, val |-> v, pos |-> p]
SyntaxError(p) == [ok |-> FALSE, val |-> JNull, pos |-> p]

IsWs(c) == c \in {9, 10, 13, 32}
IsDigit(c) == c >= 48 /\ c <= 57

RECURSIVE SkipWs(_, _)
SkipWs(txt, i) ==
  IF i <= Len(txt) /\ IsWs(txt[i]) THEN SkipWs(txt, i + 1) ELSE i

StartsWith(txt, i, word) ==
  /\ i + Len(word) - 1 <= Len(txt)
  /\ \A k \in 1..Len(word) : txt[i + k - 1] = word[k]

HexVal(c) ==
  IF IsDigit(c) THEN c - 48
  ELSE IF c >= 97 /\ c <= 102 THEN c - 87
  ELSE IF c >= 65 /\ c <= 70 THEN c - 55
  ELSE -1

\* The character a two-character escape stands for; -1 when there is none.
Unescape(c) ==
  CASE c = 34 -> 34 [] c = 92 -> 92 [] c = 47 -> 47 [] c = 98 -> 8
    [] c = 102 -> 12 [] c = 110 -> 10 [] c = 114 -> 13 [] c = 116 -> 9
    [] OTHER -> -1

\* The characters of a string literal from position i (after the opening
\* quote) to its closing quote.
RECURSIVE ParseChars(_, _, _)
ParseChars(txt, i, acc) ==
  IF i > Len(txt) THEN SyntaxError(i)
  ELSE LET c == txt[i]
       IN IF c = 34 THEN Parsed(JStr(acc), i + 1)
          ELSE IF c < 32 THEN SyntaxError(i)
          ELSE IF c # 92 THEN ParseChars(txt, i + 1, Append(acc, c))
          ELSE IF i + 1 > Len(txt) THEN SyntaxError(i + 1)
          ELSE IF txt[i + 1] = 117
            THEN IF i + 5 <= Len(txt) /\ \A k \in 2..5 : HexVal(txt[i + k]) >= 0
                 THEN ParseChars(txt, i + 6,
                        Append(acc, HexVal(txt[i + 2]) * 4096 + HexVal(txt[i + 3]) * 256
                                    + HexVal(txt[i + 4]) * 16 + HexVal(txt[i + 5])))
                 ELSE SyntaxError(i + 2)
          ELSE IF Unescape(txt[i + 1]) >= 0
            THEN ParseChars(txt, i + 2, Append(acc, Unescape(txt[i + 1])))
          ELSE SyntaxError(i + 1)

RECURSIVE ParseDigits(_, _, _)
ParseDigits(txt, i, acc) ==
  IF i <= Len(txt) /\ IsDigit(txt[i])
  THEN ParseDigits(txt, i + 1, acc * 10 + (txt[i] - 48))
  ELSE Parsed(JNum(acc), i)

RECURSIVE ParseValue(_, _)
RECURSIVE ParseItems(_, _, _)

\* One value starting at position i (leading white space skipped).
ParseValue(txt, i) ==
  LET j == SkipWs(txt, i)
  IN IF j > Len(txt) THEN SyntaxError(j)
     ELSE LET c == txt[j]
          IN IF c = 91
             THEN LET k == SkipWs(txt, j + 1)
                  IN IF k <= Len(txt) /\ txt[k] = 93 THEN Parsed(JArr(<<>>), k + 1)
                     ELSE ParseItems(txt, j + 1, <<>>)
             ELSE IF c = 34 THEN ParseChars(txt, j + 1, <<>>)
             ELSE IF c = 48 THEN Parsed(JNum(0), j + 1)
             ELSE IF IsDigit(c) THEN ParseDigits(txt, j, 0)
             ELSE IF StartsWith(txt, j, <<110, 117, 108, 108>>) THEN Parsed(JNull, j + 4)
             ELSE IF StartsWith(txt, j, <<116, 114, 117, 101>>) THEN Parsed(JBool(TRUE), j + 4)
             ELSE IF StartsWith(txt, j, <<102, 97, 108, 115, 101>>)
               THEN Parsed(JBool(FALSE), j + 5)
             ELSE SyntaxError(j)

\* The elements of a non-empty array from position i, up to its "]".
ParseItems(txt, i, acc) ==
  LET v == ParseValue(txt, i)
  IN IF ~v.ok THEN v
     ELSE LET j == SkipWs(txt, v.pos)
          IN IF j > Len(txt) THEN SyntaxError(j)
             ELSE IF txt[j] = 93 THEN Parsed(JArr(Append(acc, v.val)), j + 1)
             ELSE IF txt[j] = 44 THEN ParseItems(txt, j + 1, Append(acc, v.val))
             ELSE SyntaxError(j)

\* JSON.parse(txt): one value, then nothing but white space.
JSONparse(txt) ==
  LET v == ParseValue(txt, 1)
  IN IF ~v.ok THEN v
     ELSE IF SkipWs(txt, v.pos) <= Len(txt) THEN SyntaxError(SkipWs(txt, v.pos))
     ELSE v

HexDigit(d) == IF d < 10 THEN 48 + d ELSE 87 + d

Hex4(u) ==
  <<92, 117, HexDigit(u \div 4096), HexDigit((u \div 256) % 16),
    HexDigit((u \div 16) % 16), HexDigit(u % 16)>>

RECURSIVE Quote(_)
Quote(str) ==
  IF str = <<>> THEN <<>>
  ELSE LET c == Head(str)
           pair == Len(str) >= 2 /\ IsHighSurrogate(c) /\ IsLowSurrogate(str[2])
       IN IF pair THEN <<c, str[2]>> \o Quote(Tail(Tail(str)))
          ELSE (CASE c = 34 -> <<92, 34>> [] c = 92 -> <<92, 92>>
                  [] c = 8 -> <<92, 98>> [] c = 9 -> <<92, 116>> [] c = 10 -> <<92, 110>>
                  [] c = 12 -> <<92, 102>> [] c = 13 -> <<92, 114>>
                  [] c < 32 \/ IsHighSurrogate(c) \/ IsLowSurrogate(c) -> Hex4(c)
                  [] OTHER -> <<c>>) \o Quote(Tail(str))

RECURSIVE Digits(_)
Digits(k) == IF k < 10 THEN <<48 + k>> ELSE Digits(k \div 10) \o <<48 + (k % 10)>>

\* JSON.stringify(v), the body res.json(v) sends.
RECURSIVE JSONstringify(_)
RECURSIVE JoinItems(_)
JSONstringify(v) ==
  CASE v.t = "null" -> <<110, 117, 108, 108>>
    [] v.t = "true" -> <<116, 114, 117, 101>>
    [] v.t = "false" -> <<102, 97, 108, 115, 101>>
    [] v.t = "num" -> Digits(v.n)
    [] v.t = "str" -> <<34>> \o Quote(v.s) \o <<34>>
    [] v.t = "arr" -> <<91>> \o JoinItems(v.items) \o <<93>>

JoinItems(vs) ==
  IF vs = <<>> THEN <<>>
  ELSE IF Len(vs) = 1 THEN JSONstringify(vs[1])
  ELSE JSONstringify(vs[1]) \o <<44>> \o JoinItems(Tail(vs))

\* ------------------------------------------------------------ the inputs

RequestIds == 1..MaxRequests

\* JavaScript values a request body can hold under imageUrl (Undefined: the
\* field is missing).
Undefined == [t |-> "undefined", s |-> "", n |-> 0]
JsNull == [t |-> "null", s |-> "", n |-> 0]
JsString(str) == [t |-> "string", s |-> str, n |-> 0]
JsNumber(k) == [t |-> "number", s |-> "", n |-> k]
JsFalse == [t |-> "boolean", s |-> "", n |-> 0]

ImageUrls ==
  {Undefined, JsNull, JsString(""), JsNumber(0), JsFalse,
   JsString("http://x/1.jpg"), JsString("http://y/2.png")}

\* What a script may print on stdout: the serialization of a value, here
\*   []<newline>      [1]      ["e-acute"]
\* A child that ends early leaves a prefix of its text.
ScriptValues == {JArr(<<>>), JArr(<<JNum(1)>>), JArr(<<JStr(<<233>>)>>)}
Serialize(v) == Utf8Encode(JSONstringify(v))
StdoutTexts ==
  {Serialize(v) : v \in ScriptValues} \cup {Serialize(JArr(<<>>)) \o <<10>>}

\* What a script may print on stderr: "w", or an e-acute (two bytes).
StderrTexts == {<<119>>, <<195, 169>>}

\* The code the 'close' event carries: a number, or null when a signal ended
\* the child.
ExitCode(k) == [isNull |-> FALSE, n |-> k]
NullCode == [isNull |-> TRUE, n |-> 0]
ExitCodes == {ExitCode(k) : k \in 0..MaxExitCode} \cup {NullCode}

IsPrefix(a, b) == Len(a) <= Len(b) /\ a = SubSeq(b, 1, Len(a))

\* ------------------------------------------------------------- the state

VARIABLES
  phase,          \* per request: "idle", "rejected", "waiting", "finished"
  imageUrl,       \* per request: req.body.imageUrl
  spawnArgs,      \* per request: the URL argument of every child spawned for it
  child,          \* per request: "none", "running", "exited"
  exitCode,       \* per request: the code its child ended with
  stdoutWritten,  \* per request: every byte the child wrote to stdout
  stderrWritten,  \* per request: every byte the child wrote to stderr
  stdoutPipe,     \* per request: bytes written to stdout, not yet delivered
  stderrPipe,     \* per request: bytes written to stderr, not yet delivered
  stdoutOpen,     \* per request: the stdout stream has not ended
  stderrOpen,     \* per request: the stderr stream has not ended
  arrivals,       \* per request: the 'data' events so far, in order
  result_data,    \* per request: the handler's stdout buffer
  error_data,     \* per request: the handler's stderr buffer
  responses,      \* per request: the responses sent, in order
  log             \* per request: the console.log calls, in order

vars ==
  <<phase, imageUrl, spawnArgs, child, exitCode, stdoutWritten, stderrWritten,
    stdoutPipe, stderrPipe, stdoutOpen, stderrOpen, arrivals, result_data,
    error_data, responses, log>>

childVars ==
  <<child, exitCode, stdoutWritten, stderrWritten, stdoutPipe, stderrPipe,
    stdoutOpen, stderrOpen>>

Init ==
  /\ phase = [r \in RequestIds |-> "idle"]
  /\ imageUrl = [r \in RequestIds |-> Undefined]
  /\ spawnArgs = [r \in RequestIds |-> <<>>]
  /\ child = [r \in RequestIds |-> "none"]
  /\ exitCode = [r \in RequestIds |-> NullCode]
  /\ stdoutWritten = [r \in RequestIds |-> <<>>]
  /\ stderrWritten = [r \in RequestIds |-> <<>>]
  /\ stdoutPipe = [r \in RequestIds |-> <<>>]
  /\ stderrPipe = [r \in RequestIds |-> <<>>]
  /\ stdoutOpen = [r \in RequestIds |-> FALSE]
  /\ stderrOpen = [r \in RequestIds |-> FALSE]
  /\ arrivals = [r \in RequestIds |-> <<>>]
  /\ result_data = [r \in RequestIds |-> <<>>]
  /\ error_data = [r \in RequestIds |-> <<>>]
  /\ responses = [r \in RequestIds |-> <<>>]
  /\ log = [r \in RequestIds |-> <<>>]

\* ------------------------------------------------- responses and the log

NoException == [name |-> "", message |-> "", text |-> <<>>]
\* new Error("python script returned empty list")
EmptyListError == [name |-> "Error", message |-> "python script returned empty list",
                   text |-> <<>>]
\* The SyntaxError of JSON.parse; its message quotes the text it was given.
JsonSyntaxError(txt) == [name |-> "SyntaxError", message |-> "Unexpected token",
                         text |-> txt]

LogLine(msg, url, txt, e) == [msg |-> msg, url |-> url, text |-> txt, exc |-> e]

\* res.status(400).json({ error: 'No image URL provided' })
ValidationError ==
  [status |-> 400, error |-> "No image URL provided", hasDetails |-> FALSE,
   details |-> <<>>, body |-> <<>>]

\* res.status(500).json({error: 'failed to process the image', details: error_data})
ProcessFailure(stderrText) ==
  [status |-> 500, error |-> "failed to process the image", hasDetails |-> TRUE,
   details |-> stderrText, body |-> <<>>]

\* Mutants of ParseFailure: the payload also carries the stderr buffer; it
\* carries the text the exception quotes; its message is the exception's.
ParseFailureWithDetails(e, stderrText) ==
  [status |-> 500, error |-> "Failed to parse results from script.",
   hasDetails |-> TRUE, details |-> stderrText, body |-> <<>>]

ParseFailureLeaksText(e, stderrText) ==
  [status |-> 500, error |-> "Failed to parse results from script.",
   hasDetails |-> TRUE, details |-> e.text, body |-> <<>>]

ParseFailureRawMessage(e, stderrText) ==
  [status |-> 500, error |-> e.message, hasDetails |-> FALSE, details |-> <<>>,
   body |-> <<>>]

\* res.status(500).json({ error: 'Failed to parse results from script.' }); the
\* caught exception e and the stderr buffer are logged, not sent.
ParseFailure(e, stderrText) ==
  [status |-> 500, error |-> "Failed to parse results from script.",
   hasDetails |-> FALSE, details |-> <<>>, body |-> <<>>]

\* res.json(results): status 200, the body is the value serialized again.
Success(results) ==
  [status |-> 200, error |-> "", hasDetails |-> FALSE, details |-> <<>>,
   body |-> JSONstringify(results)]

\* ------------------------------------------------------------ the handler

\* Mutant of Falsy: only a missing field is refused (imageUrl === undefined).
FalsyOnlyMissing(v) == v.t = "undefined"

\* !imageUrl
Falsy(v) ==
  \/ v.t \in {"undefined", "null"}
  \/ v.t = "string" /\ v.s = ""
  \/ v.t = "number" /\ v.n = 0
  \/ v.t = "boolean" /\ v.n = 0

\* Mutant of CodeIsNonZero: the code is tested for truthiness (if (code)), and
\* null is falsy.
CodeIsTruthy(code) == ~code.isNull /\ code.n # 0

\* Mutant of CodeIsNonZero: only exit code 1 counts as failure (code === 1).
CodeIsOne(code) == ~code.isNull /\ code.n = 1

\* code !== 0
CodeIsNonZero(code) == code.isNull \/ code.n # 0

\* Mutant of AppendChunk: the chunk is put in front (buffer = data + buffer).
PrependChunk(buffer, data) == toString(data) \o buffer

\* buffer += data.toString()
AppendChunk(buffer, data) == buffer \o toString(data)

\* Mutant of TryThrows: no check for an empty buffer, which is read as null
\* (JSON.parse(result_data || 'null')).
TryThrowsNoEmptyCheck(resultText) ==
  IF resultText # <<>> /\ ~JSONparse(resultText).ok THEN JsonSyntaxError(resultText)
  ELSE NoException

\* The exception the try block throws, NoException when it runs through.
TryThrows(resultText) ==
  IF resultText = <<>> THEN EmptyListError
  ELSE IF ~JSONparse(resultText).ok THEN JsonSyntaxError(resultText)
  ELSE NoException

\* Mutant of CloseResponse: any stderr output is fatal, exit code 0 or not
\* (if (code !== 0 || error_data)).
CloseResponseStderrFatal(code, resultText, stderrText) ==
  IF CodeIsNonZero(code) \/ stderrText # <<>> THEN ProcessFailure(stderrText)
  ELSE IF TryThrows(resultText) # NoException
    THEN ParseFailure(TryThrows(resultText), stderrText)
  ELSE Success(JSONparse(resultText).val)

\* The response the 'close' listener sends for an exit code and the buffers.
CloseResponse(code, resultText, stderrText) ==
  IF CodeIsNonZero(code) THEN ProcessFailure(stderrText)
  ELSE IF TryThrows(resultText) # NoException
    THEN ParseFailure(TryThrows(resultText), stderrText)
  ELSE Success(JSONparse(resultText).val)

\* What the 'close' listener logs, in order.
CloseLog(code, resultText, stderrText) ==
  IF CodeIsNonZero(code)
  THEN <<LogLine("Python script error", Undefined, stderrText, NoException)>>
  ELSE (IF stderrText # <<>>
        THEN <<LogLine("Python warnings (non-fatal)", Undefined, stderrText, NoException)>>
        ELSE <<>>)
       \o <<LogLine("image processed successfully", Undefined, <<>>, NoException)>>
       \o (IF TryThrows(resultText) # NoException
           THEN <<LogLine("error parsing JSON from python script", Undefined, <<>>,
                          TryThrows(resultText)),
                  LogLine("Stderr content was", Undefined, stderrText, NoException)>>
           ELSE <<LogLine("sending the results back", Undefined,
                          JSONstringify(JSONparse(resultText).val), NoException)>>)

\* Mutant of PostGetUrl: the 400 is sent without "return", so the handler goes
\* on to spawn the child and attach the listeners.
PostGetUrlNoReturn(r, v) ==
  /\ phase[r] = "idle"
  /\ imageUrl' = [imageUrl EXCEPT ![r] = v]
  /\ responses' = [responses EXCEPT ![r] =
                     IF Falsy(v) THEN Append(@, ValidationError) ELSE @]
  /\ log' = [log EXCEPT ![r] =
               Append(@, LogLine("recieved image url", v, <<>>, NoException))]
  /\ spawnArgs' = [spawnArgs EXCEPT ![r] = Append(@, v)]
  /\ child' = [child EXCEPT ![r] = "running"]
  /\ stdoutOpen' = [stdoutOpen EXCEPT ![r] = TRUE]
  /\ stderrOpen' = [stderrOpen EXCEPT ![r] = TRUE]
  /\ phase' = [phase EXCEPT ![r] = "waiting"]
  /\ UNCHANGED <<exitCode, stdoutWritten, stderrWritten, stdoutPipe, stderrPipe,
                 arrivals, result_data, error_data>>

\* router.post('/get-url'): the request with body field v arrives.  Either the
\* 400 is sent, or the child is spawned and the three listeners are attached.
PostGetUrl(r, v) ==
  /\ phase[r] = "idle"
  /\ imageUrl' = [imageUrl EXCEPT ![r] = v]
  /\ IF Falsy(v)
     THEN /\ responses' = [responses EXCEPT ![r] = Append(@, ValidationError)]
          /\ phase' = [phase EXCEPT ![r] = "rejected"]
          /\ UNCHANGED <<spawnArgs, childVars, log>>
     ELSE /\ log' = [log EXCEPT ![r] =
                       Append(@, LogLine("recieved image url", v, <<>>, NoException))]
          /\ spawnArgs' = [spawnArgs EXCEPT ![r] = Append(@, v)]
          /\ child' = [child EXCEPT ![r] = "running"]
          /\ stdoutOpen' = [stdoutOpen EXCEPT ![r] = TRUE]
          /\ stderrOpen' = [stderrOpen EXCEPT ![r] = TRUE]
          /\ phase' = [phase EXCEPT ![r] = "waiting"]
          /\ UNCHANGED <<exitCode, stdoutWritten, stderrWritten, stdoutPipe,
                         stderrPipe, responses>>
  /\ UNCHANGED <<arrivals, result_data, error_data>>

\* The child writes bytes to its stdout.
ChildWriteStdout(r, bytes, texts) ==
  /\ child[r] = "running"
  /\ bytes # <<>>
  /\ \E t \in texts : IsPrefix(stdoutWritten[r] \o bytes, t)
  /\ stdoutWritten' = [stdoutWritten EXCEPT ![r] = @ \o bytes]
  /\ stdoutPipe' = [stdoutPipe EXCEPT ![r] = @ \o bytes]
  /\ UNCHANGED <<phase, imageUrl, spawnArgs, child, exitCode, stderrWritten,
                 stderrPipe, stdoutOpen, stderrOpen, arrivals, result_data,
                 error_data, responses, log>>

\* The child writes bytes to its stderr.
ChildWriteStderr(r, bytes, texts) ==
  /\ child[r] = "running"
  /\ bytes # <<>>
  /\ \E t \in texts : IsPrefix(stderrWritten[r] \o bytes, t)
  /\ stderrWritten' = [stderrWritten EXCEPT ![r] = @ \o bytes]
  /\ stderrPipe' = [stderrPipe EXCEPT ![r] = @ \o bytes]
  /\ UNCHANGED <<phase, imageUrl, spawnArgs, child, exitCode, stdoutWritten,
                 stdoutPipe, stdoutOpen, stderrOpen, arrivals, result_data,
                 error_data, responses, log>>

\* The child ends, with an exit code or by a signal; what it wrote stays in
\* the pipes.
ChildExit(r, code) ==
  /\ child[r] = "running"
  /\ child' = [child EXCEPT ![r] = "exited"]
  /\ exitCode' = [exitCode EXCEPT ![r] = code]
  /\ UNCHANGED <<phase, imageUrl, spawnArgs, stdoutWritten, stderrWritten,
                 stdoutPipe, stderrPipe, stdoutOpen, stderrOpen, arrivals,
                 result_data, error_data, responses, log>>

\* Mutant of StdoutData: result_data is declared outside the handler, one
\* buffer for all requests.
StdoutDataSharedBuffer(r, n) ==
  /\ stdoutOpen[r]
  /\ n \in 1..Len(stdoutPipe[r])
  /\ LET data == SubSeq(stdoutPipe[r], 1, n)
     IN /\ result_data' = [q \in RequestIds |-> AppendChunk(result_data[q], data)]
        /\ arrivals' = [arrivals EXCEPT ![r] =
                          Append(@, [stream |-> "stdout", chunk |-> data])]
        /\ stdoutPipe' = [stdoutPipe EXCEPT ![r] =
                            SubSeq(@, n + 1, Len(@))]
  /\ UNCHANGED <<phase, imageUrl, spawnArgs, child, exitCode, stdoutWritten,
                 stderrWritten, stderrPipe, stdoutOpen, stderrOpen, error_data,
                 responses, log>>

\* Python_process.stdout.on('data'): the next n bytes of the pipe arrive as
\* one chunk.
StdoutData(r, n) ==
  /\ stdoutOpen[r]
  /\ n \in 1..Len(stdoutPipe[r])
  /\ LET data == SubSeq(stdoutPipe[r], 1, n)
     IN /\ result_data' = [result_data EXCEPT ![r] = AppendChunk(@, data)]
        /\ arrivals' = [arrivals EXCEPT ![r] =
                          Append(@, [stream |-> "stdout", chunk |-> data])]
        /\ stdoutPipe' = [stdoutPipe EXCEPT ![r] =
                            SubSeq(@, n + 1, Len(@))]
  /\ UNCHANGED <<phase, imageUrl, spawnArgs, child, exitCode, stdoutWritten,
                 stderrWritten, stderrPipe, stdoutOpen, stderrOpen, error_data,
                 responses, log>>

\* Python_process.stderr.on('data')
StderrData(r, n) ==
  /\ stderrOpen[r]
  /\ n \in 1..Len(stderrPipe[r])
  /\ LET data == SubSeq(stderrPipe[r], 1, n)
     IN /\ error_data' = [error_data EXCEPT ![r] = AppendChunk(@, data)]
        /\ arrivals' = [arrivals EXCEPT ![r] =
                          Append(@, [stream |-> "stderr", chunk |-> data])]
        /\ stderrPipe' = [stderrPipe EXCEPT ![r] =
                            SubSeq(@, n + 1, Len(@))]
  /\ UNCHANGED <<phase, imageUrl, spawnArgs, child, exitCode, stdoutWritten,
                 stderrWritten, stdoutPipe, stdoutOpen, stderrOpen, result_data,
                 responses, log>>

\* A stream ends once the child is gone and its pipe is drained.
StdoutEnd(r) ==
  /\ stdoutOpen[r] /\ child[r] = "exited" /\ stdoutPipe[r] = <<>>
  /\ stdoutOpen' = [stdoutOpen EXCEPT ![r] = FALSE]
  /\ UNCHANGED <<phase, imageUrl, spawnArgs, child, exitCode, stdoutWritten,
                 stderrWritten, stdoutPipe, stderrPipe, stderrOpen, arrivals,
                 result_data, error_data, responses, log>>

StderrEnd(r) ==
  /\ stderrOpen[r] /\ child[r] = "exited" /\ stderrPipe[r] = <<>>
  /\ stderrOpen' = [stderrOpen EXCEPT ![r] = FALSE]
  /\ UNCHANGED <<phase, imageUrl, spawnArgs, child, exitCode, stdoutWritten,
                 stderrWritten, stdoutPipe, stderrPipe, stdoutOpen, arrivals,
                 result_data, error_data, responses, log>>

\* Mutant of CloseEventReady: the listener is attached under a name the child
\* never emits ('closed').
NoSuchEventReady(r) == FALSE

\* Mutant of CloseEventReady: the handler answers as soon as stdout has
\* delivered something, the child possibly still running.
FirstOutputReady(r) == result_data[r] # <<>>

\* Mutant of CloseEventReady: the handler listens to 'exit', which fires as soon
\* as the child has ended, the streams possibly still open.
ExitEventReady(r) == child[r] = "exited"

\* The event the handler listens to is 'close': the child has ended AND both
\* of its stdio streams have closed.
CloseEventReady(r) ==
  child[r] = "exited" /\ ~stdoutOpen[r] /\ ~stderrOpen[r]

\* Python_process.on('close', (code) => ...)
OnClose(r) ==
  /\ phase[r] = "waiting"
  /\ CloseEventReady(r)
  /\ responses' = [responses EXCEPT ![r] =
                     Append(@, CloseResponse(exitCode[r], result_data[r], error_data[r]))]
  /\ log' = [log EXCEPT ![r] =
               @ \o CloseLog(exitCode[r], result_data[r], error_data[r])]
  /\ phase' = [phase EXCEPT ![r] = "finished"]
  /\ UNCHANGED <<imageUrl, spawnArgs, childVars, arrivals, result_data, error_data>>

\* ------------------------------------------------------ the specification

\* Every nonempty part of a text, the units a child writes in.
Pieces(texts) ==
  UNION {{SubSeq(t, i, j) : i \in 1..Len(t), j \in 1..Len(t)} : t \in texts} \ {<<>>}

\* Every step request r can take, its child printing parts of the given texts.
Step(r, urls, outs, errs, codes) ==
  \/ \E v \in urls : PostGetUrl(r, v)
  \/ \E b \in Pieces(outs) : ChildWriteStdout(r, b, outs)
  \/ \E b \in Pieces(errs) : ChildWriteStderr(r, b, errs)
  \/ \E c \in codes : ChildExit(r, c)
  \/ \E n \in 1..Len(stdoutPipe[r]) : StdoutData(r, n)
  \/ \E n \in 1..Len(stderrPipe[r]) : StderrData(r, n)
  \/ StdoutEnd(r)
  \/ StderrEnd(r)
  \/ OnClose(r)

\* One request in flight, the full texts.
Served == {1}

Next == \E r \in Served : Step(r, ImageUrls, StdoutTexts, StderrTexts, ExitCodes)

Spec == Init /\ [][Next]_vars

\* The event loop delivers what is pending: a chunk in a pipe is read, a
\* drained stream of an ended child ends, a due 'close' runs its listener.
\* Nothing makes a child write or end.
EventLoopFairness ==
  \A r \in Served :
    /\ WF_vars(\E n \in 1..Len(stdoutPipe[r]) : StdoutData(r, n))
    /\ WF_vars(\E n \in 1..Len(stderrPipe[r]) : StderrData(r, n))
    /\ WF_vars(StdoutEnd(r))
    /\ WF_vars(StderrEnd(r))
    /\ WF_vars(OnClose(r))

\* One request whose child prints "[1]" or part of it on stdout and may print
\* "w" on stderr, under that fairness.
LiveUrls == {Undefined, JsString("http://x/1.jpg")}
LiveStdoutTexts == {Serialize(JArr(<<JNum(1)>>))}
LiveStderrTexts == {<<119>>}

NextLive ==
  \E r \in Served : Step(r, LiveUrls, LiveStdoutTexts, LiveStderrTexts, ExitCodes)

SpecLive == Init /\ [][NextLive]_vars /\ EventLoopFairness

\* Several requests in flight at once: the child of request r prints the
\* number r on stdout and may print "w" on stderr, and ends with code 0 or 1.
OwnStdoutTexts(r) == {Digits(r)}
ShortStderrTexts == {<<119>>}
ConcurrentUrls == {Undefined, JsString("http://x/1.jpg")}

ConcurrentCodes == {ExitCode(0), ExitCode(1)}

NextConcurrent ==
  \E r \in RequestIds :
    Step(r, ConcurrentUrls, OwnStdoutTexts(r), ShortStderrTexts, ConcurrentCodes)

SpecConcurrent == Init /\ [][NextConcurrent]_vars

\* Two runs of the same request side by side: each child prints the string
\* "e-acute" (in quotes, four bytes) or part of it on stdout and may print "w"
\* on stderr.
TwoRunsUrls == {JsString("http://x/1.jpg")}
TwoRunsStdoutTexts == {Serialize(JStr(<<233>>))}

NextTwoRuns ==
  \E r \in RequestIds :
    Step(r, TwoRunsUrls, TwoRunsStdoutTexts, ShortStderrTexts, ConcurrentCodes)

SpecTwoRuns == Init /\ [][NextTwoRuns]_vars

\* ------------------------------------------------------------ the claims

FalsyUrls == {Undefined, JsNull, JsString(""), JsNumber(0), JsFalse}

Finished(r) == phase[r] = "finished"
ExitedZero(r) == ~exitCode[r].isNull /\ exitCode[r].n = 0
ValidJson(txt) == txt # <<>> /\ JSONparse(txt).ok

\* C1: a request whose imageUrl is missing or falsy gets exactly the response
\* 400 {error: 'No image URL provided'}, and no child process is spawned for it.
C1_FalsyUrlRejected ==
  \A r \in RequestIds :
    (phase[r] # "idle" /\ imageUrl[r] \in FalsyUrls) =>
      /\ responses[r] =
           <<[status |-> 400, error |-> "No image URL provided", hasDetails |-> FALSE,
              details |-> <<>>, body |-> <<>>]>>
      /\ spawnArgs[r] = <<>>
      /\ child[r] = "none"

C1_Witness ==
  \E r \in RequestIds :
    phase[r] = "rejected" /\ imageUrl[r] = JsString("") /\ Len(responses[r]) = 1

\* C2: after a numeric exit code other than 0, whatever the stdout buffer
\* holds, the response is 500 {error: 'failed to process the image', details:
\* the stderr buffer}; the stdout buffer is neither parsed nor returned.
C2_NonZeroExitFails ==
  \A r \in RequestIds :
    (Finished(r) /\ ~exitCode[r].isNull /\ exitCode[r].n # 0) =>
      /\ responses[r] =
           <<[status |-> 500, error |-> "failed to process the image",
              hasDetails |-> TRUE, details |-> error_data[r], body |-> <<>>]>>
      /\ \A i \in 1..Len(log[r]) :
           log[r][i].msg \notin {"error parsing JSON from python script",
                                 "sending the results back"}

C2_Witness ==
  \E r \in RequestIds :
    /\ Finished(r) /\ ~exitCode[r].isNull /\ exitCode[r].n = 2
    /\ ValidJson(result_data[r])
    /\ error_data[r] # <<>>

\* C3: after exit code 0 with a non-empty stdout buffer that is valid JSON, the
\* response is 200 with the parsed value as its body, whether or not the stderr
\* buffer is empty; the stderr text is logged and is no part of the response.
C3_CleanExitReturnsParsedValue ==
  \A r \in RequestIds :
    (Finished(r) /\ ExitedZero(r) /\ ValidJson(result_data[r])) =>
      /\ responses[r] =
           <<[status |-> 200, error |-> "", hasDetails |-> FALSE, details |-> <<>>,
              body |-> JSONstringify(JSONparse(result_data[r]).val)]>>
      /\ error_data[r] # <<>> =>
           \E i \in 1..Len(log[r]) :
             /\ log[r][i].msg = "Python warnings (non-fatal)"
             /\ log[r][i].text = error_data[r]

C3_Witness ==
  \E r \in RequestIds :
    /\ Finished(r) /\ ExitedZero(r) /\ ValidJson(result_data[r])
    /\ error_data[r] # <<>>
    /\ Len(responses[r]) = 1 /\ responses[r][1].status = 200

\* C4: after exit code 0 with an empty stdout buffer the response is one 500
\* failure payload; no 200 is sent.
C4_EmptyOutputFails ==
  \A r \in RequestIds :
    (Finished(r) /\ ExitedZero(r) /\ result_data[r] = <<>>) =>
      /\ Len(responses[r]) = 1
      /\ responses[r][1].status = 500
      /\ responses[r][1].error # ""
      /\ responses[r][1].body = <<>>

C4_Witness ==
  \E r \in RequestIds :
    /\ Finished(r) /\ ExitedZero(r) /\ result_data[r] = <<>>
    /\ Len(responses[r]) = 1

\* C5 as claimed: after exit code 0 with an empty stdout buffer, the error
\* payload sent to the caller carries the content of the stderr buffer (stated
\* for a stderr buffer that has content).
C5_EmptyOutputPayloadHasStderr ==
  \A r \in RequestIds :
    (Finished(r) /\ ExitedZero(r) /\ result_data[r] = <<>> /\ error_data[r] # <<>>) =>
      \E i \in 1..Len(responses[r]) :
        responses[r][i].hasDetails /\ responses[r][i].details = error_data[r]

\* C5 as amended: after exit code 0 with an empty stdout buffer, the payload
\* sent is the fixed {error: 'Failed to parse results from script.'}, without
\* the stderr text; the content of the stderr buffer goes to the log, in the
\* "Stderr content was" line.
C5_EmptyOutputStderrLoggedOnly ==
  \A r \in RequestIds :
    (Finished(r) /\ ExitedZero(r) /\ result_data[r] = <<>>) =>
      /\ responses[r] =
           <<[status |-> 500, error |-> "Failed to parse results from script.",
              hasDetails |-> FALSE, details |-> <<>>, body |-> <<>>]>>
      /\ \E i \in 1..Len(log[r]) :
           log[r][i].msg = "Stderr content was" /\ log[r][i].text = error_data[r]

C5_Witness ==
  \E r \in RequestIds :
    /\ Finished(r) /\ ExitedZero(r) /\ result_data[r] = <<>>
    /\ error_data[r] # <<>>
    /\ Len(responses[r]) = 1

\* C6: after exit code 0 with a non-empty stdout buffer that is not valid
\* JSON, the response is exactly 500 {error: 'Failed to parse results from
\* script.'}: no details, neither the raw stdout text nor the exception text.
C6_InvalidOutputGenericFailure ==
  \A r \in RequestIds :
    (Finished(r) /\ ExitedZero(r) /\ result_data[r] # <<>>
       /\ ~JSONparse(result_data[r]).ok) =>
      responses[r] =
        <<[status |-> 500, error |-> "Failed to parse results from script.",
           hasDetails |-> FALSE, details |-> <<>>, body |-> <<>>]>>

C6_Witness ==
  \E r \in RequestIds :
    /\ Finished(r) /\ ExitedZero(r) /\ result_data[r] # <<>>
    /\ ~JSONparse(result_data[r]).ok
    /\ Len(responses[r]) = 1

\* The bytes of one stream's chunks, in arrival order.
RECURSIVE ChunkBytes(_, _)
ChunkBytes(events, stream) ==
  IF events = <<>> THEN <<>>
  ELSE (IF Head(events).stream = stream THEN Head(events).chunk ELSE <<>>)
       \o ChunkBytes(Tail(events), stream)

\* The text of one stream's chunks, each chunk as the listener read it, in
\* arrival order.
RECURSIVE ChunkText(_, _)
ChunkText(events, stream) ==
  IF events = <<>> THEN <<>>
  ELSE (IF Head(events).stream = stream THEN toString(Head(events).chunk) ELSE <<>>)
       \o ChunkText(Tail(events), stream)

\* C7 as claimed (round trip): when the child exits with code 0 and all it
\* wrote to stdout is the serialization of a value V, in whatever chunks it
\* arrives, the response is 200 and its body parses back to V.
C7_RoundTrip ==
  \A r \in RequestIds :
    \A V \in ScriptValues :
      (Finished(r) /\ ExitedZero(r) /\ stdoutWritten[r] = Serialize(V)) =>
        /\ Len(responses[r]) = 1
        /\ responses[r][1].status = 200
        /\ JSONparse(responses[r][1].body).ok
        /\ JSONparse(responses[r][1].body).val = V

\* C8: every error response carries one of the three fixed messages; the only
\* variable text is the stderr buffer, in the details of the process-failure
\* payload; the text of a caught exception is in no response.
FixedMessages ==
  {"No image URL provided", "failed to process the image",
   "Failed to parse results from script."}

C8_ErrorsAreSanitized ==
  \A r \in RequestIds :
    \A i \in 1..Len(responses[r]) :
      LET resp == responses[r][i]
      IN resp.status # 200 =>
           /\ resp.error \in FixedMessages
           /\ resp.body = <<>>
           /\ resp.hasDetails =>
                resp.error = "failed to process the image" /\ resp.details = error_data[r]
           /\ ~resp.hasDetails => resp.details = <<>>

\* A parse failure was answered: the exception quoting the raw text was caught.
C8_Witness ==
  \E r \in RequestIds :
    /\ Finished(r) /\ ExitedZero(r)
    /\ TryThrows(result_data[r]).name = "SyntaxError"
    /\ Len(responses[r]) = 1 /\ responses[r][1].status = 500

\* C9: the decision is taken only after the child has ended and both streams
\* have delivered everything: at the decision nothing is left in a pipe, the
\* chunks that arrived are all the bytes the child wrote, and no chunk of
\* either stream arrives after it.
C9_AllDelivered ==
  \A r \in RequestIds :
    Finished(r) =>
      /\ child[r] = "exited"
      /\ stdoutPipe[r] = <<>> /\ stderrPipe[r] = <<>>
      /\ ChunkBytes(arrivals[r], "stdout") = stdoutWritten[r]
      /\ ChunkBytes(arrivals[r], "stderr") = stderrWritten[r]

C9_NothingAfterDecision ==
  \A r \in RequestIds :
    Finished(r) =>
      /\ arrivals'[r] = arrivals[r]
      /\ result_data'[r] = result_data[r]
      /\ error_data'[r] = error_data[r]

C9_DecisionAfterAllData == []C9_AllDelivered /\ [][C9_NothingAfterDecision]_vars

\* A decision taken after three or more chunks arrived, the child having
\* written to both streams.
C9_Witness ==
  \E r \in RequestIds :
    /\ Finished(r)
    /\ Len(arrivals[r]) >= 3
    /\ stdoutWritten[r] # <<>> /\ stderrWritten[r] # <<>>

\* C10: under every interleaving of the data events, the stdout buffer is the
\* text of the stdout chunks in arrival order and the stderr buffer the text of
\* the stderr chunks in arrival order; a stdout data event leaves the stderr
\* buffer as it is, a stderr data event the stdout buffer.
C10_BuffersAreChunksInOrder ==
  \A r \in RequestIds :
    /\ result_data[r] = ChunkText(arrivals[r], "stdout")
    /\ error_data[r] = ChunkText(arrivals[r], "stderr")

C10_StreamsIndependent ==
  \A r \in RequestIds :
    arrivals'[r] # arrivals[r] =>
      LET ev == arrivals'[r][Len(arrivals'[r])]
      IN /\ ev.stream = "stdout" => error_data'[r] = error_data[r]
         /\ ev.stream = "stderr" => result_data'[r] = result_data[r]

C10_BuffersPerStream == []C10_BuffersAreChunksInOrder /\ [][C10_StreamsIndependent]_vars

\* Decided after chunks of both streams arrived interleaved: stdout, stderr,
\* stdout.
C10_Witness ==
  \E r \in RequestIds :
    /\ Finished(r)
    /\ Len(arrivals[r]) >= 3
    /\ arrivals[r][1].stream = "stdout"
    /\ arrivals[r][2].stream = "stderr"
    /\ arrivals[r][3].stream = "stdout"

\* C11: the outcome is finalized once, when the child's 'close' arrives, and a
\* request never gets a second response: a rejected request has exactly the
\* validation response, a finished one exactly one of the process-failure,
\* parse-failure and success responses, a waiting one none yet; and a response
\* once sent is never followed by another.
C11_Kinds ==
  {<<400, "No image URL provided">>, <<500, "failed to process the image">>,
   <<500, "Failed to parse results from script.">>, <<200, "">>}

C11_OneResponse ==
  \A r \in RequestIds :
    /\ Len(responses[r]) <= 1
    /\ \A i \in 1..Len(responses[r]) :
         <<responses[r][i].status, responses[r][i].error>> \in C11_Kinds
    /\ phase[r] \in {"idle", "waiting"} => responses[r] = <<>>
    /\ phase[r] = "rejected" =>
         Len(responses[r]) = 1 /\ responses[r][1].status = 400
    /\ Finished(r) =>
         /\ Len(responses[r]) = 1 /\ responses[r][1].status \in {200, 500}
         /\ child[r] = "exited"

C11_ResponseIsFinal ==
  \A r \in RequestIds :
    /\ responses[r] # <<>> => responses'[r] = responses[r]
    /\ phase[r] \in {"rejected", "finished"} => phase'[r] = phase[r]

C11_AtMostOneResponse == []C11_OneResponse /\ [][C11_ResponseIsFinal]_vars

\* A finished request whose child wrote to both streams in several chunks.
C11_Witness ==
  \E r \in RequestIds :
    /\ Finished(r) /\ Len(responses[r]) = 1
    /\ Len(arrivals[r]) >= 3

\* C12 (liveness): once the child of a request has ended, whatever its exit
\* code and whatever it wrote, its 'close' arrives and a response is sent.
C12_ExitLeadsToResponse ==
  \A r \in RequestIds :
    (child[r] = "exited") ~> (Finished(r) /\ Len(responses[r]) = 1)

\* A child that ended with bytes of both streams still in the pipes.
C12_Witness ==
  \E r \in RequestIds :
    /\ child[r] = "exited" /\ phase[r] = "waiting"
    /\ stdoutPipe[r] # <<>> /\ stderrPipe[r] # <<>>

\* C13: while the child of a request has not ended, no response is sent,
\* however much output has arrived: nothing but the child's end (no timeout,
\* no cancellation) leads to a response, so a child that never ends leaves the
\* request unanswered for ever.
C13_RunningMeansUnanswered ==
  \A r \in RequestIds :
    child[r] = "running" => responses[r] = <<>> /\ phase[r] = "waiting"

C13_OnlyCloseAnswers ==
  \A r \in RequestIds :
    (spawnArgs[r] # <<>> /\ responses'[r] # responses[r]) =>
      child[r] = "exited" /\ child'[r] = "exited"

C13_NoResponseBeforeExit ==
  []C13_RunningMeansUnanswered /\ [][C13_OnlyCloseAnswers]_vars

\* The child still runs, its whole output has arrived and is valid JSON, and
\* there is no response.
C13_Witness ==
  \E r \in RequestIds :
    /\ child[r] = "running"
    /\ ValidJson(result_data[r]) /\ stdoutPipe[r] = <<>>
    /\ error_data[r] # <<>>
    /\ responses[r] = <<>>

\* C14: with several requests in flight, each request with a non-empty
\* imageUrl spawns one child, with its own URL; under every interleaving its
\* buffers hold only what its own child wrote and its response is the one its
\* own child's exit code and output call for; an event of one request changes
\* no buffer and no response of another.
C14_OwnResponse(r) ==
  IF exitCode[r].isNull \/ exitCode[r].n # 0
  THEN [status |-> 500, error |-> "failed to process the image", hasDetails |-> TRUE,
        details |-> stderrWritten[r], body |-> <<>>]
  ELSE IF stdoutWritten[r] = <<>>
  THEN [status |-> 500, error |-> "Failed to parse results from script.",
        hasDetails |-> FALSE, details |-> <<>>, body |-> <<>>]
  ELSE [status |-> 200, error |-> "", hasDetails |-> FALSE, details |-> <<>>,
        body |-> Digits(r)]

C14_OwnProcessOnly ==
  \A r \in RequestIds :
    /\ Len(spawnArgs[r]) <= 1
    /\ phase[r] \in {"waiting", "finished"} => spawnArgs[r] = <<imageUrl[r]>>
    /\ ChunkBytes(arrivals[r], "stdout") \o stdoutPipe[r] = stdoutWritten[r]
    /\ ChunkBytes(arrivals[r], "stderr") \o stderrPipe[r] = stderrWritten[r]
    /\ result_data[r] = ChunkText(arrivals[r], "stdout")
    /\ error_data[r] = ChunkText(arrivals[r], "stderr")
    /\ result_data[r] \in {<<>>, Digits(r)}
    /\ Finished(r) => responses[r] = <<C14_OwnResponse(r)>>

C14_OthersUntouched ==
  \A r \in RequestIds :
    (arrivals'[r] # arrivals[r] \/ responses'[r] # responses[r]
       \/ exitCode'[r] # exitCode[r]) =>
      \A q \in RequestIds \ {r} :
        /\ result_data'[q] = result_data[q]
        /\ error_data'[q] = error_data[q]
        /\ arrivals'[q] = arrivals[q]
        /\ responses'[q] = responses[q]
        /\ spawnArgs'[q] = spawnArgs[q]

C14_RequestsIsolated == []C14_OwnProcessOnly /\ [][C14_OthersUntouched]_vars

\* Two requests in flight together: one has its child's output in its buffer
\* and waits for the child to end, the other has already answered 200 with its
\* own child's output.
C14_Witness ==
  \E r, q \in RequestIds :
    /\ r # q
    /\ phase[r] = "waiting" /\ child[r] = "running" /\ result_data[r] = Digits(r)
    /\ Finished(q) /\ Len(responses[q]) = 1
    /\ responses[q][1].status = 200 /\ responses[q][1].body = Digits(q)

\* C15 as claimed: the response is a function of the exit code, the whole
\* stdout output and the whole stderr output: two runs that agree on the three
\* get the same response, however the output was cut into chunks and however
\* the chunks of the two streams were interleaved.
C15_ResponseDependsOnTotalsOnly ==
  \A r, q \in RequestIds :
    (/\ Finished(r) /\ Finished(q)
     /\ exitCode[r] = exitCode[q]
     /\ stdoutWritten[r] = stdoutWritten[q]
     /\ stderrWritten[r] = stderrWritten[q]) =>
      responses[r] = responses[q]

\* C16: when a signal ended the child, so that 'close' carries the code null,
\* the response is 500 {error: 'failed to process the image', details: the
\* stderr buffer}, never a 200, also when the stdout buffer holds valid JSON.
C16_SignalExitFails ==
  \A r \in RequestIds :
    (Finished(r) /\ exitCode[r].isNull) =>
      responses[r] =
        <<[status |-> 500, error |-> "failed to process the image",
           hasDetails |-> TRUE, details |-> error_data[r], body |-> <<>>]>>

C16_Witness ==
  \E r \in RequestIds :
    /\ Finished(r) /\ exitCode[r].isNull
    /\ ValidJson(result_data[r])
    /\ error_data[r] # <<>>
    /\ Len(responses[r]) = 1

====
